---------------------------- MODULE Spec2Model ----------------------------
(***************************************************************************)
(* A model of rscript: the scope-stack Environment, the Span merge, the    *)
(* token stream, the recursive-descent Parser and the Runtime that         *)
(* executes a parsed Program.                                              *)
(*                                                                         *)
(* Four specifications share the module's variables:                       *)
(*   Spec      the Environment as an object: its five operations are       *)
(*             called in any order;                                        *)
(*   SpecSpan  Span::combine applied to pairs of spans;                    *)
(*   SpecParse Parser::parse applied to a source text, as main does;       *)
(*   SpecRun   a Runtime executing source texts.                           *)
(***************************************************************************)
EXTENDS Integers, Sequences, FiniteSets, TLC

VARIABLES
    variables,  \* Environment.variables: the stack of scopes, outermost first
    op,         \* history: the last call and its arguments
    result,     \* history: what the last call returned
    prev,       \* history: Environment.variables as it was before the last call
    saved,      \* history: for every scope above the first, what every name
                \* looked up to at the moment that scope was pushed
    spanA,      \* SpecSpan: the receiver of combine
    spanB,      \* SpecSpan: the argument of combine
    parsed,     \* SpecParse, SpecRun: the parser and the outcome of
                \* Parser::parse for the last source
    runs        \* SpecRun: the number of sources the Runtime has executed

vars == <<variables, op, result, prev, saved, spanA, spanB, parsed, runs>>

-----------------------------------------------------------------------------
(* Bounds *)

\* PushScope is not taken once the stack holds this many scopes.
MaxDepth == 3

\* The names the environment's operations are called with.
Names == {"x", "y"}

\* SpecSpan draws the starts and ends of spans from 0..MaxOffset.
MaxOffset == 4

\* The expressions SpecParse parses join up to MaxOperands primaries,
MaxOperands == 3

\* its struct declarations hold up to MaxFields fields,
MaxFields == 2

\* and its function bodies up to MaxBody statements.
MaxBody == 2

\* A source SpecParse parses starts and ends with 0..MaxWs bytes of
\* whitespace.
MaxWs == 1

\* SpecRun executes integer literals of the numbers 0..MaxLiteral,
MaxLiteral == 2

\* each after up to MaxPad leading zeros,
MaxPad == 1

\* and programs of up to MaxLets variable declarations,
MaxLets == 2

\* on a Runtime that executes up to MaxRuns sources.
MaxRuns == 2

-----------------------------------------------------------------------------
(* span.rs *)

Span(start, end) == [start |-> start, end |-> end]

\* usize::min
min(a, b) == IF a <= b THEN a ELSE b

\* The maximum, which the merged end of a covering span would need.
max(a, b) == IF a >= b THEN a ELSE b

\* A combine that takes the maximum of the two ends.
combine_covering(self, other) ==
    Span(min(self.start, other.start), max(self.end, other.end))

\* A combine that takes the later start and the earlier end.
combine_inner(self, other) ==
    Span(max(self.start, other.start), min(self.end, other.end))

\* Span::combine
combine(self, other) ==
    Span(min(self.start, other.start), min(self.end, other.end))

-----------------------------------------------------------------------------
(* runtime/environment.rs *)

\* Value::Int, of an i64 kept as its decimal digits (see parse_i64).
ValueInt(i) == [tag |-> "Int", v |-> i]

\* The values the environment's operations are called with: Int(1), Int(2).
Values == {ValueInt(<<1>>), ValueInt(<<2>>)}

None == [some |-> FALSE]

Some(v) == [some |-> TRUE, value |-> v]

Ok == [ok |-> TRUE]

VariableNotFound(name) == [ok |-> FALSE, err |-> "VariableNotFound", name |-> name]

VariableAlreadyDeclared(name) ==
    [ok |-> FALSE, err |-> "VariableAlreadyDeclared", name |-> name]

\* HashMap::new()
EmptyScope == [n \in {} |-> None]

\* HashMap::insert: the key is added, or its value replaced.
insert(map, name, value) ==
    [n \in (DOMAIN map) \cup {name} |-> IF n = name THEN value ELSE map[n]]

\* Environment::new
new == <<EmptyScope>>

\* Environment::scope: the innermost scope (the last of the stack).
scope(env) == env[Len(env)]

\* A scope_mut that takes the first scope of the stack instead of the last.
with_scope_first(env, s) == [env EXCEPT ![1] = s]

\* Environment::scope_mut followed by a replacement of the innermost scope.
with_scope(env, s) == [env EXCEPT ![Len(env)] = s]

push_scope(env) == Append(env, EmptyScope)

\* A pop_scope without the guard on the number of scopes.
pop_scope_unguarded(env) == SubSeq(env, 1, Len(env) - 1)

pop_scope(env) ==
    IF Len(env) > 1 THEN SubSeq(env, 1, Len(env) - 1) ELSE env

\* A declare_variable that refuses a name the current scope already binds.
declare_variable_once(env, name, value) ==
    IF name \in DOMAIN scope(env)
    THEN [env |-> env, res |-> VariableAlreadyDeclared(name)]
    ELSE [env |-> with_scope(env, insert(scope(env), name, value)), res |-> Ok]

declare_variable(env, name, value) ==
    [env |-> with_scope(env, insert(scope(env), name, value)), res |-> Ok]

\* The loop of get_variable over self.variables.iter().rev(), at index i.
RECURSIVE get_from(_, _, _)
get_from(env, i, name) ==
    IF i = 0 THEN None
    ELSE IF name \in DOMAIN env[i] THEN Some(env[i][name])
    ELSE get_from(env, i - 1, name)

\* A get_variable that iterates the scopes without .rev(): outermost first.
RECURSIVE get_forward(_, _, _)
get_forward(env, i, name) ==
    IF i > Len(env) THEN None
    ELSE IF name \in DOMAIN env[i] THEN Some(env[i][name])
    ELSE get_forward(env, i + 1, name)

get_variable_forward(env, name) == get_forward(env, 1, name)

get_variable(env, name) == get_from(env, Len(env), name)

\* A set_variable that does what its doc comment says: the innermost scope
\* binding the name is updated, and a name no scope binds is an error.
RECURSIVE set_from(_, _, _, _)
set_from(env, i, name, value) ==
    IF i = 0 THEN [env |-> env, res |-> VariableNotFound(name)]
    ELSE IF name \in DOMAIN env[i]
    THEN [env |-> [env EXCEPT ![i] = insert(env[i], name, value)], res |-> Ok]
    ELSE set_from(env, i - 1, name, value)

set_variable_searching(env, name, value) == set_from(env, Len(env), name, value)

set_variable(env, name, value) ==
    [env |-> with_scope(env, insert(scope(env), name, value)), res |-> Ok]

\* What every name looks up to in env.
Lookup(env) == [n \in Names |-> get_variable(env, n)]

-----------------------------------------------------------------------------
(* parser/lexer.rs: the token stream *)

(***************************************************************************)
(* A source text is [lexemes, gaps, trail]: a sequence of lexemes, the     *)
(* i-th preceded by gaps[i] bytes of whitespace, and trail bytes of        *)
(* whitespace after the last.  Two lexemes that would lex as one when      *)
(* adjacent (a keyword, an identifier or a number next to another) have    *)
(* whitespace between them.  A lexeme is what one rule of the Token enum   *)
(* matches:                                                                *)
(*   [kind |-> K]                         the literal text of token K      *)
(*   [kind |-> "Identifier", name |-> n]  an identifier                    *)
(*   [kind |-> "Digits", digits |-> d]    [0-9]+                           *)
(*   [kind |-> "Float", whole |-> d, frac |-> f]   [0-9]+\.[0-9]+          *)
(*   [kind |-> "Quoted", text |-> t, len |-> n]    a string literal        *)
(*   [kind |-> "Invalid"]                 one byte that matches no rule    *)
(***************************************************************************)

Tok(kind) == [kind |-> kind]

\* The length of the text of the keyword, operator and delimiter tokens.
TokenLen(kind) ==
    CASE kind \in {"Plus", "Minus", "Star", "Slash", "Assign", "LessThan",
                   "GreaterThan", "LParen", "RParen", "LBrace", "RBrace",
                   "LBracket", "RBracket", "Semicolon", "Colon", "Comma",
                   "Period"} -> 1
      [] kind \in {"Fn", "If", "Equals", "NotEquals", "And", "Or", "RightArrow"} -> 2
      [] kind \in {"Let", "Mut", "For"} -> 3
      [] kind \in {"True", "Type", "Loop", "Else"} -> 4
      [] kind \in {"False", "While"} -> 5
      [] kind \in {"Struct", "Return"} -> 6

\* The length of the identifiers the sources are written with.
NameLen(name) ==
    CASE name \in {"a", "b", "x", "y", "P", "S", "f"} -> 1
      [] name \in {"int"} -> 3
      [] name \in {"main"} -> 4
      [] name \in {"Point"} -> 5

\* lex.slice().len(): the number of bytes a lexeme takes.
LexemeLen(lx) ==
    CASE lx.kind = "Identifier" -> NameLen(lx.name)
      [] lx.kind = "Digits" -> Len(lx.digits)
      [] lx.kind = "Float" -> Len(lx.whole) + 1 + Len(lx.frac)
      [] lx.kind = "Quoted" -> lx.len
      [] lx.kind = "Invalid" -> 1
      [] OTHER -> TokenLen(lx.kind)

\* A digit string without its leading zeros (at least one digit is kept).
RECURSIVE StripZeros(_)
StripZeros(d) ==
    IF Len(d) > 1 /\ d[1] = 0 THEN StripZeros(Tail(d)) ELSE d

\* The decimal digits of i64::MAX, 9223372036854775807.
I64MaxDigits == <<9, 2, 2, 3, 3, 7, 2, 0, 3, 6, 8, 5, 4, 7, 7, 5, 8, 0, 7>>

\* a > b for two digit strings of the same length.
RECURSIVE DigitsGreater(_, _)
DigitsGreater(a, b) ==
    IF a = <<>> THEN FALSE
    ELSE IF a[1] # b[1] THEN a[1] > b[1]
    ELSE DigitsGreater(Tail(a), Tail(b))

\* str::parse::<i64> of a digit string: the value, or ParseIntError when it
\* exceeds i64::MAX.  An i64 is kept as its decimal digits, the most
\* significant first and without leading zeros, so that the whole range of
\* i64 is represented.
parse_i64(d) ==
    LET z == StripZeros(d) IN
    IF \/ Len(z) > Len(I64MaxDigits)
       \/ (Len(z) = Len(I64MaxDigits) /\ DigitsGreater(z, I64MaxDigits))
    THEN [ok |-> FALSE, err |-> "ParseIntError"]
    ELSE [ok |-> TRUE, value |-> z]

\* The fraction digits without their trailing zeros.
RECURSIVE StripTrailingZeros(_)
StripTrailingZeros(f) ==
    IF Len(f) > 1 /\ f[Len(f)] = 0
    THEN StripTrailingZeros(SubSeq(f, 1, Len(f) - 1))
    ELSE f

\* The decimal point among the digits of an f64.
Point == -1

\* str::parse::<f64> of digits '.' digits, which always succeeds: the value
\* is kept as the digits of its whole part, the point, and the digits of
\* its fraction.
parse_f64(whole, frac) ==
    [ok |-> TRUE,
     value |-> StripZeros(whole) \o <<Point>> \o StripTrailingZeros(frac)]

\* The Result<Token, LexerError> the lexer yields for a lexeme.
lex(lx) ==
    CASE lx.kind = "Identifier" ->
            [ok |-> TRUE, token |-> [kind |-> "Identifier", name |-> lx.name]]
      [] lx.kind = "Digits" ->
            LET v == parse_i64(lx.digits) IN
            IF v.ok
            THEN [ok |-> TRUE, token |-> [kind |-> "IntegerLiteral", value |-> v.value]]
            ELSE [ok |-> FALSE, err |-> v.err]
      [] lx.kind = "Float" ->
            [ok |-> TRUE,
             token |-> [kind |-> "FloatLiteral",
                        value |-> parse_f64(lx.whole, lx.frac).value]]
      [] lx.kind = "Quoted" ->
            [ok |-> TRUE, token |-> [kind |-> "String", value |-> lx.text]]
      [] lx.kind = "Invalid" -> [ok |-> FALSE, err |-> "Other"]
      [] OTHER -> [ok |-> TRUE, token |-> Tok(lx.kind)]

\* The items the lexer yields for a source, each with lexer.span() after it:
\* the lexemes from the i-th on, the one before ending at byte `offset`.
RECURSIVE lex_from(_, _, _)
lex_from(src, i, offset) ==
    IF i > Len(src.lexemes) THEN <<>>
    ELSE LET start == offset + src.gaps[i]
             end == start + LexemeLen(src.lexemes[i])
         IN <<[res |-> lex(src.lexemes[i]), span |-> Span(start, end)]>>
                \o lex_from(src, i + 1, end)

\* Lexer::new: nothing lexed yet, lexer.span() is 0..0.
Lexer(src) ==
    LET items == lex_from(src, 1, 0)
        len == (IF items = <<>> THEN 0 ELSE items[Len(items)].span.end) + src.trail
    IN [items |-> items, pos |-> 0, span |-> Span(0, 0), len |-> len]

\* Lexer::next: the next item, or None at the end of the input, where
\* lexer.span() becomes the empty span at the end of the source.
lexer_next(lexer) ==
    IF lexer.pos < Len(lexer.items)
    THEN LET it == lexer.items[lexer.pos + 1] IN
         [lexer |-> [lexer EXCEPT !.pos = lexer.pos + 1, !.span = it.span],
          item |-> Some(it.res)]
    ELSE [lexer |-> [lexer EXCEPT !.span = Span(lexer.len, lexer.len)],
          item |-> None]

-----------------------------------------------------------------------------
(* parser/mod.rs *)

\* The outcomes of a parsing function: Ok(v), Err(e), a panic (todo!), which
\* unwinds through every caller, or no return at all.
ROk(v) == [kind |-> "Ok", v |-> v]

RErr(e) == [kind |-> "Err", err |-> e]

RPanic(msg) == [kind |-> "Panic", msg |-> msg]

\* A loop that does not end: the function never returns.
RDiverges == [kind |-> "Diverges"]

\* A parsing function returns the parser as it leaves it and its outcome.
R(p, r) == [p |-> p, r |-> r]

LexerError(e) == [variant |-> "LexerError", error |-> e]

UnexpectedToken(expected, found, span) ==
    [variant |-> "UnexpectedToken", expected |-> expected, found |-> found,
     span |-> span]

UnexpectedEof == [variant |-> "UnexpectedEof"]

\* Parser::new
Parser(src) == [lexer |-> Lexer(src), current |-> None]

current_span(p) == p.lexer.span

\* The ? operator on the outcome r of a parsing function: anything but Ok
\* returns from the enclosing function as it is, an Ok continues with K.
Try(r, K(_)) == IF r.r.kind # "Ok" THEN r ELSE K(r)

\* The ? operator on a Result<_, LexerError>: From converts the error into
\* ParserError::LexerError.
TryFrom(r, K(_)) ==
    IF r.r.kind = "Err" THEN R(r.p, RErr(LexerError(r.r.err))) ELSE Try(r, K)

\* An advance that gives up the lookahead token when the lexer fails.
advance_replacing(p) ==
    LET n == lexer_next(p.lexer) IN
    IF n.item.some /\ n.item.value.ok
    THEN R([lexer |-> n.lexer,
            current |-> Some(<<n.item.value.token, n.lexer.span>>)], ROk(<<>>))
    ELSE IF n.item.some
    THEN R([lexer |-> n.lexer, current |-> None], RErr(n.item.value.err))
    ELSE R([lexer |-> n.lexer, current |-> None], ROk(<<>>))

\* Parser::advance
advance(p) ==
    LET n == lexer_next(p.lexer) IN
    IF n.item.some
    THEN IF n.item.value.ok
         THEN R([lexer |-> n.lexer,
                 current |-> Some(<<n.item.value.token, n.lexer.span>>)], ROk(<<>>))
         ELSE R([p EXCEPT !.lexer = n.lexer], RErr(n.item.value.err))
    ELSE R([lexer |-> n.lexer, current |-> None], ROk(<<>>))

\* The tokens the parser has still to consume: the lookahead and what the
\* lexer has not yielded.
Remaining(p) ==
    (IF p.current.some THEN 1 ELSE 0) + (Len(p.lexer.items) - p.lexer.pos)

\* Whether the parser consumed a token between `before` and `after`.  The
\* lookahead and the lexer are all that a loop's condition and body read,
\* and only advance changes them, so an iteration that returns Ok and
\* consumed nothing is followed by the same iteration again, for ever.
Consumed(before, after) == Remaining(after) < Remaining(before)

\* Parser::peek
peek(p) == IF p.current.some THEN Some(p.current.value[1]) ELSE None

\* A consume that takes the lookahead token whatever it is.
consume_any(p, expected) ==
    IF p.current.some
    THEN LET span == p.current.value[2]
         IN TryFrom(advance(p), LAMBDA a : R(a.p, ROk(span)))
    ELSE R(p, RErr(UnexpectedToken(expected.kind, None, current_span(p))))

\* Parser::consume
consume(p, expected) ==
    IF p.current.some
    THEN LET token == p.current.value[1]
             span == p.current.value[2]
         IN IF token = expected
            THEN TryFrom(advance(p), LAMBDA a : R(a.p, ROk(span)))
            ELSE R(p, RErr(UnexpectedToken(expected.kind, Some(token), span)))
    ELSE R(p, RErr(UnexpectedToken(expected.kind, None, current_span(p))))

\* Parser::consume_identifier
consume_identifier(p) ==
    IF p.current.some /\ p.current.value[1].kind = "Identifier"
    THEN LET name == p.current.value[1].name
             span == p.current.value[2]
         IN TryFrom(advance(p), LAMBDA a :
            R(a.p, ROk([node |-> "Identifier", name |-> name, span |-> span])))
    ELSE R(p, RErr(UnexpectedToken("identifier", peek(p), current_span(p))))

\* Parser::parse_integer_literal
parse_integer_literal(p) ==
    IF p.current.some /\ p.current.value[1].kind = "IntegerLiteral"
    THEN LET value == p.current.value[1].value
             span == p.current.value[2]
         IN TryFrom(advance(p), LAMBDA a :
            R(a.p, ROk([node |-> "IntegerLiteral", value |-> value, span |-> span])))
    ELSE R(p, RPanic("unexpected token for integer literal"))

\* Parser::parse_float_literal
parse_float_literal(p) ==
    IF p.current.some /\ p.current.value[1].kind = "FloatLiteral"
    THEN LET value == p.current.value[1].value
             span == p.current.value[2]
         IN TryFrom(advance(p), LAMBDA a :
            R(a.p, ROk([node |-> "FloatLiteral", value |-> value, span |-> span])))
    ELSE R(p, RPanic("unexpected token for float literal"))

\* Whether the lookahead is a token of this kind.
at(p, kind) == p.current.some /\ p.current.value[1].kind = kind

\* A BinaryOp with its operands exchanged.
BinaryOp_exchanged(operator, left, right, span) ==
    [node |-> "BinaryOp", operator |-> operator, left |-> right, right |-> left,
     span |-> span, inferred_type |-> None]

BinaryOp(operator, left, right, span) ==
    [node |-> "BinaryOp", operator |-> operator, left |-> left, right |-> right,
     span |-> span, inferred_type |-> None]

\* Parser::parse_expression
RECURSIVE parse_expression(_)
parse_expression(p) ==
    Try(CASE at(p, "IntegerLiteral") -> parse_integer_literal(p)
          [] at(p, "FloatLiteral") -> parse_float_literal(p)
          [] at(p, "Identifier") -> consume_identifier(p)
          [] OTHER -> R(p, RPanic("got expression")),
        LAMBDA f :
    LET first == f.r.v
        is_binary_op == \/ at(f.p, "Plus") \/ at(f.p, "Minus")
                        \/ at(f.p, "Star") \/ at(f.p, "Slash")
    IN
    IF ~is_binary_op THEN R(f.p, ROk(first))
    ELSE IF at(f.p, "Plus") \/ at(f.p, "Star")
    THEN Try(consume(f.p, IF at(f.p, "Plus") THEN Tok("Plus") ELSE Tok("Star")),
             LAMBDA c :
         IF ~Consumed(p, c.p) THEN R(c.p, RDiverges) ELSE
         Try(parse_expression(c.p), LAMBDA s :
         R(s.p, ROk(BinaryOp(IF at(f.p, "Plus") THEN "Add" ELSE "Multiply",
                             first, s.r.v,
                             combine(first.span, s.r.v.span))))))
    ELSE R(f.p, RPanic("binary operation not implemented yet")))

\* Parser::parse_variable_declaration
parse_variable_declaration(p) ==
    Try(consume(p, Tok("Let")), LAMBDA l :
    Try(consume_identifier(l.p), LAMBDA i :
    Try(consume(i.p, Tok("Assign")), LAMBDA a :
    Try(parse_expression(a.p), LAMBDA e :
    Try(consume(e.p, Tok("Semicolon")), LAMBDA s :
    R(s.p, ROk([node |-> "VariableDeclaration", identifier |-> i.r.v,
                initializer |-> e.r.v,
                span |-> Span(l.r.v.start, s.r.v.end)])))))))

\* Parser::parse_return_statement
parse_return_statement(p) ==
    Try(consume(p, Tok("Return")), LAMBDA t :
    IF peek(t.p) = Some(Tok("Semicolon"))
    THEN R(t.p, ROk([node |-> "ReturnStatement", value |-> None, span |-> t.r.v]))
    ELSE
    Try(parse_expression(t.p), LAMBDA e :
    Try(consume(e.p, Tok("Semicolon")), LAMBDA s :
    R(s.p, ROk([node |-> "ReturnStatement", value |-> Some(e.r.v),
                span |-> combine(t.r.v, e.r.v.span)])))))

\* A loop over the fields of a tuple struct that leaves at the end of the
\* input as it does at `)`.
RECURSIVE tuple_fields_to_end(_, _)
tuple_fields_to_end(p, fields) ==
    TryFrom(advance(p), LAMBDA a :
    IF ~a.p.current.some THEN R(a.p, ROk(fields)) ELSE
    LET token == a.p.current.value[1]
        span == a.p.current.value[2]
    IN
    CASE token.kind = "RParen" -> R(a.p, ROk(fields))
      [] token.kind = "Comma" ->
            IF ~Consumed(p, a.p) THEN R(a.p, RDiverges) ELSE
            tuple_fields_to_end(a.p, fields)
      [] token.kind = "Identifier" ->
            IF ~Consumed(p, a.p) THEN R(a.p, RDiverges) ELSE
            tuple_fields_to_end(a.p, Append(fields,
                [node |-> "TupleFieldDeclaration",
                 declared_type |-> [node |-> "Identifier", name |-> token.name,
                                    span |-> span],
                 span |-> span]))
      [] OTHER -> R(a.p, RErr(UnexpectedToken(") or identifier", Some(token), span))))

\* The loop over the fields of a tuple struct (parse_struct_declaration).
RECURSIVE tuple_fields(_, _)
tuple_fields(p, fields) ==
    TryFrom(advance(p), LAMBDA a :
    IF ~a.p.current.some THEN R(a.p, RErr(UnexpectedEof)) ELSE
    LET token == a.p.current.value[1]
        span == a.p.current.value[2]
    IN
    CASE token.kind = "RParen" -> R(a.p, ROk(fields))
      [] token.kind = "Comma" ->
            IF ~Consumed(p, a.p) THEN R(a.p, RDiverges) ELSE
            tuple_fields(a.p, fields)
      [] token.kind = "Identifier" ->
            IF ~Consumed(p, a.p) THEN R(a.p, RDiverges) ELSE
            tuple_fields(a.p, Append(fields,
                [node |-> "TupleFieldDeclaration",
                 declared_type |-> [node |-> "Identifier", name |-> token.name,
                                    span |-> span],
                 span |-> span]))
      [] OTHER -> R(a.p, RErr(UnexpectedToken(") or identifier", Some(token), span))))

\* The loop over the fields of a named-field struct (parse_struct_declaration):
\* Ok([fields, end_span]) when it breaks at `}`.
RECURSIVE named_fields(_, _)
named_fields(p, fields) ==
    TryFrom(advance(p), LAMBDA a :
    IF ~a.p.current.some THEN R(a.p, RErr(UnexpectedEof)) ELSE
    LET token == a.p.current.value[1]
        span == a.p.current.value[2]
    IN
    CASE token.kind = "RBrace" -> R(a.p, ROk([fields |-> fields, end_span |-> span.end]))
      [] token.kind = "Identifier" ->
            Try(consume_identifier(a.p), LAMBDA i :
            Try(consume(i.p, Tok("Colon")), LAMBDA c :
            Try(consume_identifier(c.p), LAMBDA d :
            IF ~Consumed(p, d.p) THEN R(d.p, RDiverges) ELSE
            named_fields(d.p, Append(fields,
                [node |-> "NamedFieldDeclaration", identifier |-> i.r.v,
                 declared_type |-> d.r.v, span |-> span])))))
      [] OTHER -> R(a.p, RErr(UnexpectedToken(") or identifier", Some(token), span))))

\* Parser::parse_struct_declaration
parse_struct_declaration(p) ==
    Try(consume(p, Tok("Struct")), LAMBDA t :
    Try(consume_identifier(t.p), LAMBDA i :
    LET start_span == t.r.v.start
        q == i.p
    IN
    IF ~q.current.some THEN R(q, RErr(UnexpectedEof)) ELSE
    LET token == q.current.value[1]
        span == q.current.value[2]
    IN
    CASE token.kind = "LParen" ->
            Try(tuple_fields(q, <<>>), LAMBDA f :
            Try(consume(f.p, Tok("RParen")), LAMBDA c :
            Try(consume(c.p, Tok("Semicolon")), LAMBDA e :
            R(e.p, ROk([node |-> "TupleStruct", identifier |-> i.r.v,
                        fields |-> f.r.v, span |-> Span(start_span, e.r.v.end)])))))
      [] token.kind = "LBrace" ->
            Try(named_fields(q, <<>>), LAMBDA f :
            Try(consume(f.p, Tok("RBrace")), LAMBDA c :
            R(c.p, ROk([node |-> "NamedStruct", identifier |-> i.r.v,
                        fields |-> f.r.v.fields,
                        span |-> Span(start_span, f.r.v.end_span)]))))
      [] token.kind = "Semicolon" ->
            TryFrom(advance(q), LAMBDA a :
            R(a.p, ROk([node |-> "UnitStruct", identifier |-> i.r.v,
                        span |-> Span(start_span, span.end)])))
      [] OTHER -> R(q, RErr(UnexpectedToken("( or { or ;", Some(token), span)))))

\* The parameter loop of parse_function_declaration.
RECURSIVE parameters_loop(_, _)
parameters_loop(p, parameters) ==
    IF ~at(p, "Identifier") THEN R(p, ROk(parameters)) ELSE
    Try(consume_identifier(p), LAMBDA i :
    Try(consume(i.p, Tok("Colon")), LAMBDA c :
    Try(consume_identifier(c.p), LAMBDA d :
    IF ~Consumed(p, d.p) THEN R(d.p, RDiverges) ELSE
    parameters_loop(d.p, Append(parameters,
        [node |-> "Parameter", identifier |-> i.r.v, declared_type |-> d.r.v,
         span |-> Span(i.r.v.span.start, d.r.v.span.end)])))))

RECURSIVE parse_statement(_)
RECURSIVE body_loop(_, _)
RECURSIVE parse_function_declaration(_)

\* A parse_statement that answers the end of the input with an empty
\* statement.
parse_statement_lenient(p) ==
    CASE at(p, "Let") -> parse_variable_declaration(p)
      [] at(p, "Fn") -> parse_function_declaration(p)
      [] at(p, "Struct") -> parse_struct_declaration(p)
      [] at(p, "Return") -> parse_return_statement(p)
      [] p.current.some /\ p.current.value[1].kind \notin {"Let", "Fn", "Struct", "Return"} ->
            R(p, RPanic("parse"))
      [] ~p.current.some ->
            R(p, ROk([node |-> "ReturnStatement", value |-> None,
                      span |-> current_span(p)]))

\* Parser::parse_statement
parse_statement(p) ==
    CASE at(p, "Let") -> parse_variable_declaration(p)
      [] at(p, "Fn") -> parse_function_declaration(p)
      [] at(p, "Struct") -> parse_struct_declaration(p)
      [] at(p, "Return") -> parse_return_statement(p)
      [] p.current.some /\ p.current.value[1].kind \notin {"Let", "Fn", "Struct", "Return"} ->
            R(p, RPanic("parse"))
      [] ~p.current.some ->
            R(p, RErr(UnexpectedToken("statement", None, current_span(p))))

\* The body loop of parse_function_declaration.
body_loop(p, body) ==
    IF peek(p) = Some(Tok("RBrace")) THEN R(p, ROk(body)) ELSE
    Try(parse_statement(p), LAMBDA s :
    IF ~Consumed(p, s.p) THEN R(s.p, RDiverges) ELSE
        body_loop(s.p, Append(body, s.r.v)))

\* Parser::parse_function_declaration
parse_function_declaration(p) ==
    Try(consume(p, Tok("Fn")), LAMBDA t :
    Try(consume_identifier(t.p), LAMBDA i :
    Try(consume(i.p, Tok("LParen")), LAMBDA l :
    Try(parameters_loop(l.p, <<>>), LAMBDA ps :
    Try(consume(ps.p, Tok("RParen")), LAMBDA r :
    Try(consume(r.p, Tok("RightArrow")), LAMBDA w :
    Try(consume_identifier(w.p), LAMBDA y :
    Try(consume(y.p, Tok("LBrace")), LAMBDA b :
    Try(body_loop(b.p, <<>>), LAMBDA body :
    Try(consume(body.p, Tok("RBrace")), LAMBDA e :
    R(e.p, ROk([node |-> "FunctionDeclaration", identifier |-> i.r.v,
                parameters |-> ps.r.v, return_type |-> y.r.v, body |-> body.r.v,
                span |-> Span(t.r.v.start, e.r.v.end)]))))))))))))

\* A statement loop that puts every statement before the ones already
\* parsed.
RECURSIVE statements_loop_prepending(_, _)
statements_loop_prepending(p, statements) ==
    IF ~peek(p).some THEN R(p, ROk(statements)) ELSE
    Try(parse_statement(p), LAMBDA s :
    IF ~Consumed(p, s.p) THEN R(s.p, RDiverges) ELSE
        statements_loop_prepending(s.p, <<s.r.v>> \o statements))

\* The statement loop of Parser::parse.
RECURSIVE statements_loop(_, _)
statements_loop(p, statements) ==
    IF ~peek(p).some THEN R(p, ROk(statements)) ELSE
    Try(parse_statement(p), LAMBDA s :
    IF ~Consumed(p, s.p) THEN R(s.p, RDiverges) ELSE
        statements_loop(s.p, Append(statements, s.r.v)))

\* Parser::parse
parse(p) ==
    LET program_start_span == current_span(p).start IN
    TryFrom(advance(p), LAMBDA a :
    Try(statements_loop(a.p, <<>>), LAMBDA l :
    R(l.p, ROk([node |-> "Program", statements |-> l.r.v,
                span |-> Span(program_start_span, current_span(l.p).end)]))))

-----------------------------------------------------------------------------
(* runtime/mod.rs *)

\* RuntimeError::ParserError
RuntimeParserError(e) == [variant |-> "ParserError", error |-> e]

\* RuntimeError::EnvironmentError
RuntimeEnvironmentError(e) == [variant |-> "EnvironmentError", error |-> e]

\* An evaluate_expression that answers Int(0) for every integer literal.
evaluate_expression_zero(expression) ==
    IF expression.node = "IntegerLiteral"
    THEN ROk(ValueInt(<<0>>))
    ELSE RPanic("Unhandled expression type")

\* Runtime::evaluate_expression, which reads nothing of the Runtime.
evaluate_expression(expression) ==
    IF expression.node = "IntegerLiteral"
    THEN ROk(ValueInt(expression.value))
    ELSE RPanic("Unhandled expression type")

\* The statement loop of execute_program that walks the statements from the
\* last to the first.
RECURSIVE execute_backwards(_, _, _)
execute_backwards(env, statements, i) ==
    IF i < 1 THEN [env |-> env, r |-> ROk(<<>>)]
    ELSE LET statement == statements[i] IN
         IF statement.node = "VariableDeclaration"
         THEN LET value == evaluate_expression(statement.initializer) IN
              IF value.kind # "Ok" THEN [env |-> env, r |-> value]
              ELSE execute_backwards(
                       declare_variable(env, statement.identifier.name, value.v).env,
                       statements, i - 1)
         ELSE execute_backwards(env, statements, i - 1)

\* The statement loop of execute_program, at statement i: a variable
\* declaration is evaluated and declared, any other statement is logged and
\* skipped.  The environment is returned as the loop leaves it.
RECURSIVE execute_statements(_, _, _)
execute_statements(env, statements, i) ==
    IF i > Len(statements) THEN [env |-> env, r |-> ROk(<<>>)]
    ELSE LET statement == statements[i] IN
         IF statement.node = "VariableDeclaration"
         THEN LET name == statement.identifier.name
                  value == evaluate_expression(statement.initializer)
              IN IF value.kind # "Ok" THEN [env |-> env, r |-> value]
                 ELSE LET d == declare_variable(env, name, value.v) IN
                      IF ~d.res.ok
                      THEN [env |-> d.env, r |-> RErr(RuntimeEnvironmentError(d.res))]
                      ELSE execute_statements(d.env, statements, i + 1)
         ELSE execute_statements(env, statements, i + 1)

\* An execute_program that walks the statements in reverse.
execute_program_backwards(env, program) ==
    execute_backwards(env, program.statements, Len(program.statements))

\* Runtime::execute_program
execute_program(env, program) == execute_statements(env, program.statements, 1)

\* An execute that has run the first declaration of the source by the time
\* the parser fails on what follows it.
execute_parsed_eager(env, program) ==
    IF program.r.kind = "Err"
    THEN LET items == program.p.lexer.items
             first == /\ Len(items) >= 4
                      /\ \A n \in 1..4 : items[n].res.ok
                      /\ items[1].res.token = Tok("Let")
                      /\ items[2].res.token.kind = "Identifier"
                      /\ items[4].res.token.kind = "IntegerLiteral"
         IN [env |-> IF first
                     THEN declare_variable(env, items[2].res.token.name,
                                           ValueInt(items[4].res.token.value)).env
                     ELSE env,
             r |-> RErr(RuntimeParserError(program.r.err)), parsed |-> program]
    ELSE IF program.r.kind \in {"Panic", "Diverges"}
    THEN [env |-> env, r |-> program.r, parsed |-> program]
    ELSE LET e == execute_program(env, program.r.v) IN
         [env |-> e.env, r |-> e.r, parsed |-> program]

\* Runtime::execute from the point where parser.parse() has returned program:
\* the environment afterwards, the outcome, and what the parser returned.
execute_parsed(env, program) ==
    IF program.r.kind = "Err"
    THEN [env |-> env, r |-> RErr(RuntimeParserError(program.r.err)),
          parsed |-> program]
    ELSE IF program.r.kind \in {"Panic", "Diverges"}
    THEN [env |-> env, r |-> program.r, parsed |-> program]
    ELSE LET e == execute_program(env, program.r.v) IN
         [env |-> e.env, r |-> e.r, parsed |-> program]

\* Runtime::execute
execute(env, source) == execute_parsed(env, parse(Parser(source)))

-----------------------------------------------------------------------------
(* The Environment's operations as actions *)

Idle == /\ spanA = 0 /\ spanB = 0 /\ parsed = 0 /\ runs = 0

Init ==
    /\ variables = new
    /\ op = [name |-> "new"]
    /\ result = Ok
    /\ prev = new
    /\ saved = <<>>
    /\ Idle

PushScope ==
    /\ Len(variables) < MaxDepth
    /\ variables' = push_scope(variables)
    /\ op' = [name |-> "push_scope"]
    /\ result' = Ok
    /\ prev' = variables
    /\ saved' = Append(saved, Lookup(variables))
    /\ UNCHANGED <<spanA, spanB, parsed, runs>>

PopScope ==
    /\ variables' = pop_scope(variables)
    /\ op' = [name |-> "pop_scope"]
    /\ result' = Ok
    /\ prev' = variables
    /\ saved' = IF Len(variables) > 1 THEN SubSeq(saved, 1, Len(saved) - 1) ELSE saved
    /\ UNCHANGED <<spanA, spanB, parsed, runs>>

DeclareVariable ==
    \E name \in Names, value \in Values :
        LET r == declare_variable(variables, name, value) IN
        /\ variables' = r.env
        /\ op' = [name |-> "declare_variable", ident |-> name, value |-> value]
        /\ result' = r.res
        /\ prev' = variables
        /\ UNCHANGED <<saved, spanA, spanB, parsed, runs>>

SetVariable ==
    \E name \in Names, value \in Values :
        LET r == set_variable(variables, name, value) IN
        /\ variables' = r.env
        /\ op' = [name |-> "set_variable", ident |-> name, value |-> value]
        /\ result' = r.res
        /\ prev' = variables
        /\ UNCHANGED <<saved, spanA, spanB, parsed, runs>>

GetVariable ==
    \E name \in Names :
        /\ op' = [name |-> "get_variable", ident |-> name]
        /\ result' = get_variable(variables, name)
        /\ prev' = variables
        /\ UNCHANGED <<variables, saved, spanA, spanB, parsed, runs>>

Next ==
    \/ PushScope
    \/ PopScope
    \/ DeclareVariable
    \/ SetVariable
    \/ GetVariable

Spec == Init /\ [][Next]_vars

-----------------------------------------------------------------------------
(* Span::combine applied to two spans *)

Spans == {Span(s, e) : s \in 0..MaxOffset, e \in 0..MaxOffset}

InitSpan ==
    /\ spanA \in Spans
    /\ spanB \in Spans
    /\ op = [name |-> "new"]
    /\ result = Ok
    /\ variables = new
    /\ prev = new
    /\ saved = <<>>
    /\ parsed = 0
    /\ runs = 0

Combine ==
    /\ op.name = "new"
    /\ op' = [name |-> "combine"]
    /\ result' = combine(spanA, spanB)
    /\ UNCHANGED <<variables, prev, saved, spanA, spanB, parsed, runs>>

NextSpan == Combine

SpecSpan == InitSpan /\ [][NextSpan]_vars

-----------------------------------------------------------------------------
(* Source texts *)

Ident(name) == [kind |-> "Identifier", name |-> name]

Digits(d) == [kind |-> "Digits", digits |-> d]

\* The decimal digits of a natural number.
RECURSIVE ToDigits(_)
ToDigits(n) == IF n < 10 THEN <<n>> ELSE ToDigits(n \div 10) \o <<n % 10>>

\* k zeros.
Zeros(k) == [i \in 1..k |-> 0]

\* The sequences of at least lo and at most hi elements of S.
SeqsOf(S, lo, hi) == UNION {[1..n -> S] : n \in lo..hi}

\* The concatenation of a sequence of sequences.
RECURSIVE Concat(_)
Concat(ss) == IF ss = <<>> THEN <<>> ELSE Head(ss) \o Concat(Tail(ss))

\* let <name> = <initializer lexemes> ;
LetStatement(name, initializer) ==
    <<Tok("Let"), Ident(name), Tok("Assign")>> \o initializer \o <<Tok("Semicolon")>>

\* return <value lexemes> ;
ReturnStatement(value) == <<Tok("Return")>> \o value \o <<Tok("Semicolon")>>

Float(whole, frac) == [kind |-> "Float", whole |-> whole, frac |-> frac]

\* The primaries expressions are written with.
Primaries == {Ident("a"), Ident("b"), Digits(<<5>>), Float(<<1>>, <<5>>)}

\* The expressions of n primaries joined by + and *.
RECURSIVE Chains(_)
Chains(n) ==
    IF n = 1 THEN {<<q>> : q \in Primaries}
    ELSE {<<q, o>> \o c : q \in Primaries, o \in {Tok("Plus"), Tok("Star")},
                          c \in Chains(n - 1)}

Expressions == UNION {Chains(n) : n \in 1..MaxOperands}

\* One statement around every expression.
ExpressionTexts ==
    {LetStatement("x", e) : e \in Expressions}
        \cup {ReturnStatement(e) : e \in Expressions}

\* struct P ( <items>, the input ending before any `)`.
TupleOpen(items) == <<Tok("Struct"), Ident("P"), Tok("LParen")>> \o items

\* struct P ( <items> ) ;
TupleStruct(items) == TupleOpen(items) \o <<Tok("RParen"), Tok("Semicolon")>>

\* The type names and commas between the parentheses of a tuple struct.
TupleItems == SeqsOf({Ident("int"), Tok("Comma")}, 0, MaxFields)

\* <name> : int
Field(name) == <<Ident(name), Tok("Colon"), Ident("int")>>

\* struct S { <fields> }
NamedStruct(fields) ==
    <<Tok("Struct"), Ident("S"), Tok("LBrace")>> \o Concat(fields)
        \o <<Tok("RBrace")>>

\* The fields of a named-field struct, and the same with a comma after
\* each field.
FieldLists == SeqsOf({Field("a"), Field("b")}, 0, MaxFields)

WithComma(fields) == [i \in 1..Len(fields) |-> fields[i] \o <<Tok("Comma")>>]

\* struct P
UnitOpen == <<Tok("Struct"), Ident("P")>>

\* The statement a declaration is followed by, to see where it left the
\* lookahead.
Following == LetStatement("x", <<Digits(<<5>>)>>)

StructTexts ==
    {UnitOpen, UnitOpen \o <<Tok("Semicolon")>>}
        \cup {TupleOpen(items) : items \in TupleItems}
        \cup {TupleStruct(items) : items \in TupleItems}
        \cup {NamedStruct(fs) \o tail : fs \in FieldLists, tail \in {<<>>, Following}}
        \cup {NamedStruct(WithComma(fs)) : fs \in FieldLists}

\* fn main ( <parameters> ) -> int { <body> }
Function(parameters, body) ==
    <<Tok("Fn"), Ident("main"), Tok("LParen")>> \o Concat(parameters)
        \o <<Tok("RParen"), Tok("RightArrow"), Ident("int"), Tok("LBrace")>>
        \o Concat(body) \o <<Tok("RBrace")>>

\* The statements function bodies and statement sequences are made of.
BodyStatements ==
    { LetStatement("x", <<Digits(<<5>>)>>),
      ReturnStatement(<<Ident("x")>>),
      ReturnStatement(<<>>) }

Bodies == SeqsOf(BodyStatements, 0, MaxBody)

FunctionTexts ==
    {Function(ps, body) : ps \in {<<>>, <<Field("a")>>, <<Field("a"), Field("b")>>},
                          body \in Bodies}

\* Statements one after the other at the top level.
SequenceTexts == {Concat(body) : body \in Bodies}

\* The statements whose every grammar position the erroneous texts visit.
WellFormed ==
    { LetStatement("x", <<Digits(<<5>>)>>),
      ReturnStatement(<<Ident("x")>>),
      TupleStruct(<<Ident("int")>>),
      NamedStruct(<<>>),
      Function(<<Field("a")>>, <<LetStatement("x", <<Digits(<<5>>)>>)>>) }

\* The text t cut off after its first k lexemes.
Truncated(t, k) == SubSeq(t, 1, k)

TruncatedTexts ==
    UNION {{Truncated(t, k) : k \in 1..(Len(t) - 1)} : t \in WellFormed}

\* The lexemes written where another token is expected.
Wrong == {Tok("Comma"), Tok("Colon"), Digits(<<5>>)}

\* The text t with the lexeme w in the place of its k-th lexeme.
Replaced(t, k, w) == [t EXCEPT ![k] = w]

ReplacedTexts ==
    UNION {{Replaced(t, k, w) : k \in 1..Len(t), w \in Wrong} : t \in WellFormed}

\* Digit sequences above i64::MAX: i64::MAX + 1 and ten times i64::MAX.
Overflows ==
    {SubSeq(I64MaxDigits, 1, Len(I64MaxDigits) - 1) \o <<8>>, I64MaxDigits \o <<0>>}

\* An integer literal that does not fit an i64 at every place of a statement.
OverflowTexts ==
    UNION {{Replaced(t, k, Digits(d)) : k \in 1..Len(t), d \in Overflows}
               : t \in WellFormed}

\* Such a literal after a text that is cut off or has a wrong token.
LateOverflowTexts ==
    {t \o <<Digits(I64MaxDigits \o <<0>>)>> : t \in TruncatedTexts \cup ReplacedTexts}

\* The spec's end-to-end example, struct Point(int, int); and fn main.
ExampleText ==
    <<Tok("Struct"), Ident("Point"), Tok("LParen"), Ident("int"), Tok("Comma"),
      Ident("int"), Tok("RParen"), Tok("Semicolon")>>
        \o <<Tok("Fn"), Ident("main"), Tok("LParen"), Tok("RParen"),
              Tok("RightArrow"), Ident("int"), Tok("LBrace")>>
        \o LetStatement("x", <<Digits(<<5>>)>>) \o ReturnStatement(<<Ident("x")>>)
        \o <<Tok("RBrace")>>

\* The texts SpecParse parses.
ParseTexts ==
    ExpressionTexts \cup StructTexts \cup FunctionTexts \cup SequenceTexts
        \cup TruncatedTexts \cup ReplacedTexts \cup {ExampleText}
        \cup OverflowTexts \cup LateOverflowTexts

\* The text t with ws bytes of whitespace before it and after it, and one
\* between its lexemes.
Spaced(t, ws) ==
    [lexemes |-> t, gaps |-> [i \in 1..Len(t) |-> IF i = 1 THEN ws ELSE 1],
     trail |-> ws]

\* The example as the spec writes it:
\* struct Point(int, int);\nfn main() -> int {\n let x = 5;\n return x;\n}
ExampleSource ==
    [lexemes |-> ExampleText,
     gaps |-> <<0, 1, 0, 0, 0, 1, 0, 0,  1, 1, 0, 0, 1, 1, 1,
                2, 1, 1, 1, 0,  2, 1, 0,  1>>,
     trail |-> 0]

ParseSources ==
    {Spaced(t, ws) : t \in ParseTexts, ws \in 0..MaxWs} \cup {ExampleSource}

-----------------------------------------------------------------------------
(* main.rs: Parser::new(&source).parse() *)

InitParse ==
    /\ op \in {[name |-> "new", source |-> src] : src \in ParseSources}
    /\ result = Ok
    /\ parsed = 0
    /\ variables = new
    /\ prev = new
    /\ saved = <<>>
    /\ spanA = 0
    /\ spanB = 0
    /\ runs = 0

Parse ==
    /\ op.name = "new"
    /\ op' = [name |-> "parse", source |-> op.source]
    /\ parsed' = parse(Parser(op.source))
    /\ result' = parsed'.r
    /\ UNCHANGED <<variables, prev, saved, spanA, spanB, runs>>

NextParse == Parse

SpecParse == InitParse /\ [][NextParse]_vars

-----------------------------------------------------------------------------
(* A Runtime that executes sources *)

\* The integer literals the executed sources are written with: the numbers
\* up to MaxLiteral and 42, each after up to MaxPad zeros, and i64::MAX.
LiteralValues == (0..MaxLiteral) \cup {42}

Literal(n, pad) == Zeros(pad) \o ToDigits(n)

Literals ==
    {Literal(n, pad) : n \in LiteralValues, pad \in 0..MaxPad} \cup {I64MaxDigits}

\* let <name> = <digits> ;
LetInteger(name, d) == LetStatement(name, <<Digits(d)>>)

\* The variable declarations the longer programs are made of.
ShortLets == {LetInteger(name, <<d>>) : name \in Names, d \in 1..2}

\* Programs of variable declarations with integer initializers.
LetPrograms ==
    {LetInteger(name, d) : name \in Names, d \in Literals}
        \cup {Concat(ss) : ss \in SeqsOf(ShortLets, 0, MaxLets)}

\* Sources that are more than variable declarations with integer
\* initializers, or that do not parse.
OtherPrograms ==
    { LetStatement("x", <<Ident("a"), Tok("Plus"), Ident("b")>>),
      LetInteger("x", <<1>>) \o LetStatement("y", <<Ident("x")>>),
      LetInteger("x", <<1>>) \o <<Tok("Struct"), Ident("P"), Tok("Semicolon")>>
          \o LetInteger("y", <<2>>),
      LetInteger("x", <<1>>) \o <<Tok("Let"), Ident("y"), Digits(<<2>>)>>,
      LetInteger("x", <<1>>) \o LetInteger("y", I64MaxDigits \o <<0>>),
      LetInteger("x", <<1>>) \o <<Tok("Let"), Ident("y"), Tok("Assign")>>,
      LetStatement("x", <<Float(<<1>>, <<5>>)>>),
      LetStatement("y", <<Ident("a")>>),
      LetInteger("x", <<1>>) \o LetInteger("y", <<2>>) \o <<Tok("Let")>>,
      LetInteger("y", <<2>>) \o <<Tok("Struct"), Ident("P"), Tok("LParen")>> }

RunSources == {Spaced(t, 0) : t \in LetPrograms \cup OtherPrograms}

\* What Parser::new(source).parse() returns for each source of RunSources.
\* Parsing reads nothing but the source, so execute(env, s) is
\* execute_parsed(env, p.program) for the p of RunParses with p.source = s.
RunParses == {[source |-> s, program |-> parse(Parser(s))] : s \in RunSources}

\* Runtime::new
InitRun ==
    /\ variables = new
    /\ op = [name |-> "new"]
    /\ result = ROk(<<>>)
    /\ prev = new
    /\ parsed = 0
    /\ runs = 0
    /\ saved = <<>>
    /\ spanA = 0
    /\ spanB = 0

\* Runtime::execute; a panic ends the process.
Execute ==
    /\ runs < MaxRuns
    /\ result.kind # "Panic"
    /\ \E p \in RunParses :
          LET e == execute_parsed(variables, p.program) IN
          /\ variables' = e.env
          /\ result' = e.r
          /\ parsed' = e.parsed
          /\ op' = [name |-> "execute", source |-> p.source]
    /\ prev' = variables
    /\ runs' = runs + 1
    /\ UNCHANGED <<saved, spanA, spanB>>

NextRun == Execute

SpecRun == InitRun /\ [][NextRun]_vars

-----------------------------------------------------------------------------
(* Properties of the Environment *)

\* The scopes of env that bind name.
Holders(env, name) == {i \in 1..Len(env) : name \in DOMAIN env[i]}

Max(S) == CHOOSE m \in S : \A k \in S : k <= m

Min(S) == CHOOSE m \in S : \A k \in S : m <= k

\* The scopes below the innermost one.
Outer(env) == SubSeq(env, 1, Len(env) - 1)

\* C1: a declaration is what get returns afterwards, whatever the enclosing
\* scopes bind (shadowing), and a pop_scope that removes a scope gives every
\* name the value it looked up to when that scope was pushed (restoration),
\* at every depth of the stack.
C1_ShadowRestore ==
    [][/\ op'.name = "declare_variable"
            => get_variable(variables', op'.ident) = Some(op'.value)
       /\ (op'.name = "pop_scope" /\ Len(variables) > 1)
            => Lookup(variables') = saved[Len(saved)]]_vars

\* A scope nested at least two deep has been popped, it shadowed x with
\* another value than the one x has again now.
C1_Witness ==
    /\ op.name = "pop_scope"
    /\ Len(prev) >= 3
    /\ \E x \in DOMAIN scope(prev) :
          /\ get_variable(variables, x).some
          /\ get_variable(variables, x).value # scope(prev)[x]
          /\ get_variable(prev, x) = Some(scope(prev)[x])

\* C2: get returns the binding of the innermost scope that binds the name,
\* and None exactly when no scope of the stack binds it.
C2_GetInnermost ==
    op.name = "get_variable" =>
        LET h == Holders(variables, op.ident) IN
        /\ (h = {}) <=> (result = None)
        /\ h # {} => result = Some(variables[Max(h)][op.ident])

\* get found the name in a scope that is not the innermost one, while an
\* outer scope binds it to another value.
C2_Witness ==
    /\ op.name = "get_variable"
    /\ op.ident \notin DOMAIN scope(variables)
    /\ \E i, j \in Holders(variables, op.ident) :
          /\ i < j
          /\ variables[i][op.ident] # variables[j][op.ident]
          /\ result = Some(variables[j][op.ident])

\* C3: the stack never becomes empty, and pop_scope on a stack of one scope
\* changes neither the number of scopes nor the bindings of that scope.
C3_AtLeastOneScope ==
    /\ Len(variables) >= 1
    /\ (op.name = "pop_scope" /\ Len(prev) = 1) => variables = prev

\* pop_scope was called on a single scope that holds a binding.
C3_Witness ==
    /\ op.name = "pop_scope"
    /\ Len(prev) = 1
    /\ DOMAIN prev[1] # {}

C5_SetSearchesOrFails ==
    op.name = "set_variable" =>
        LET h == Holders(prev, op.ident) IN
        IF h = {}
        THEN result = VariableNotFound(op.ident) /\ variables = prev
        ELSE /\ result = Ok
             /\ variables =
                    [prev EXCEPT ![Max(h)] = insert(prev[Max(h)], op.ident, op.value)]

\* C6: declare_variable returns Ok, never VariableAlreadyDeclared; it binds
\* the name in the innermost scope, replacing a binding of that scope, and
\* changes no other binding of any scope.
C6_DeclareAlwaysSucceeds ==
    op.name = "declare_variable" =>
        /\ result = Ok
        /\ result # VariableAlreadyDeclared(op.ident)
        /\ Len(variables) = Len(prev)
        /\ Outer(variables) = Outer(prev)
        /\ DOMAIN scope(variables) = DOMAIN scope(prev) \cup {op.ident}
        /\ scope(variables)[op.ident] = op.value
        /\ \A n \in DOMAIN scope(prev) \ {op.ident} :
              scope(variables)[n] = scope(prev)[n]

\* declare_variable replaced a binding of the innermost scope while an
\* enclosing scope binds the same name.
C6_Witness ==
    /\ op.name = "declare_variable"
    /\ op.ident \in DOMAIN scope(prev)
    /\ scope(prev)[op.ident] # op.value
    /\ \E i \in Holders(prev, op.ident) : i < Len(prev)

-----------------------------------------------------------------------------
(* Properties of the Parser and the Runtime *)

\* v is the i64 that the digit string d of Literals writes.
LiteralHolds(d, v) ==
    \/ \E n \in LiteralValues, pad \in 0..MaxPad :
          d = Literal(n, pad) /\ v = ToDigits(n)
    \/ d = I64MaxDigits /\ v = I64MaxDigits

\* C7: the source `let x = n;` parses into a Program of exactly one
\* statement, a VariableDeclaration of x whose initializer is
\* IntegerLiteral(n); executing it succeeds, and x then looks up to Int(n).
C7_LetIntegerRoundTrip ==
    op.name = "execute" =>
        \A x \in Names, d \in Literals :
            op.source.lexemes = LetInteger(x, d) =>
                /\ parsed.r.kind = "Ok"
                /\ parsed.r.v.node = "Program"
                /\ Len(parsed.r.v.statements) = 1
                /\ LET statement == parsed.r.v.statements[1] IN
                   /\ statement.node = "VariableDeclaration"
                   /\ statement.identifier.name = x
                   /\ statement.initializer.node = "IntegerLiteral"
                   /\ LiteralHolds(d, statement.initializer.value)
                /\ result = ROk(<<>>)
                /\ get_variable(variables, x).some
                /\ get_variable(variables, x).value.tag = "Int"
                /\ LiteralHolds(d, get_variable(variables, x).value.v)

\* A fresh Runtime has executed `let y = 042;`, and y looks up to Int(42).
C7_Witness ==
    /\ op.name = "execute"
    /\ prev = new
    /\ op.source.lexemes = LetInteger("y", Literal(42, 1))
    /\ get_variable(variables, "y") = Some(ValueInt(ToDigits(42)))

\* The declarations of x among the statements ss of a program.
DeclarationsOf(ss, x) == {i \in 1..Len(ss) : ss[i][2].name = x}

\* C8: after a program of variable declarations with integer initializers
\* has been executed, every name it declares looks up to the value of its
\* last declaration in source order, every other name looks up to what it
\* did before, and the environment holds as many scopes as before.
C8_LastDeclarationWins ==
    op.name = "execute" =>
        \A ss \in SeqsOf(ShortLets, 0, MaxLets) :
            op.source.lexemes = Concat(ss) =>
                /\ result = ROk(<<>>)
                /\ Len(variables) = Len(prev)
                /\ \A x \in Names :
                      LET at_x == DeclarationsOf(ss, x) IN
                      IF at_x = {}
                      THEN get_variable(variables, x) = get_variable(prev, x)
                      ELSE get_variable(variables, x)
                               = Some(ValueInt(ss[Max(at_x)][4].digits))

\* `let x = 1; let x = 2;` has been executed in an environment that bound x
\* and y: x looks up to Int(2) and y to what it did.
C8_Witness ==
    /\ op.name = "execute"
    /\ op.source.lexemes = LetInteger("x", <<1>>) \o LetInteger("x", <<2>>)
    /\ get_variable(prev, "x") = Some(ValueInt(<<1>>))
    /\ get_variable(prev, "y") = Some(ValueInt(<<2>>))
    /\ get_variable(variables, "x") = Some(ValueInt(<<2>>))
    /\ get_variable(variables, "y") = Some(ValueInt(<<2>>))

\* The span of the i-th lexeme of a source.
LexemeSpan(src, i) == Lexer(src).items[i].span

\* C9: `a + b`, as the initializer of a let or the value of a return, parses
\* into BinaryOp{Add, Identifier(a), Identifier(b)} whose span runs from the
\* start of a to the end of b.
C9_AddSpansBothOperands ==
    op.name = "parse" =>
        \A a, b \in {"a", "b"} :
            LET e == <<Ident(a), Tok("Plus"), Ident(b)>>
                is_let == op.source.lexemes = LetStatement("x", e)
                is_return == op.source.lexemes = ReturnStatement(e)
                first == IF is_let THEN 4 ELSE 2
            IN (is_let \/ is_return) =>
                /\ result.kind = "Ok"
                /\ Len(result.v.statements) = 1
                /\ LET statement == result.v.statements[1]
                       expression == IF is_let THEN statement.initializer
                                     ELSE statement.value.value
                   IN /\ expression.node = "BinaryOp"
                      /\ expression.operator = "Add"
                      /\ expression.left =
                            [node |-> "Identifier", name |-> a,
                             span |-> LexemeSpan(op.source, first)]
                      /\ expression.right =
                            [node |-> "Identifier", name |-> b,
                             span |-> LexemeSpan(op.source, first + 2)]
                      /\ expression.span =
                            Span(LexemeSpan(op.source, first).start,
                                 LexemeSpan(op.source, first + 2).end)

\* The elements of a sequence.
Range(s) == {s[i] : i \in 1..Len(s)}

\* The spans of an expression and of the expressions in it.
RECURSIVE ExpressionSpans(_)
ExpressionSpans(e) ==
    IF e.node = "BinaryOp"
    THEN {e.span} \cup ExpressionSpans(e.left) \cup ExpressionSpans(e.right)
    ELSE {e.span}

\* The spans of a parameter or a field declaration.
DeclarationSpans(d) ==
    {d.span, d.declared_type.span}
        \cup (IF d.node = "TupleFieldDeclaration" THEN {} ELSE {d.identifier.span})

\* The spans of a statement and of every node in it.
RECURSIVE StatementSpans(_)
StatementSpans(s) ==
    {s.span} \cup
    CASE s.node = "VariableDeclaration" ->
            {s.identifier.span} \cup ExpressionSpans(s.initializer)
      [] s.node = "ReturnStatement" ->
            IF s.value.some THEN ExpressionSpans(s.value.value) ELSE {}
      [] s.node \in {"TupleStruct", "NamedStruct"} ->
            {s.identifier.span}
                \cup UNION {DeclarationSpans(f) : f \in Range(s.fields)}
      [] s.node = "UnitStruct" -> {s.identifier.span}
      [] s.node = "FunctionDeclaration" ->
            {s.identifier.span, s.return_type.span}
                \cup UNION {DeclarationSpans(q) : q \in Range(s.parameters)}
                \cup UNION {StatementSpans(b) : b \in Range(s.body)}

\* The spans of a Program and of every node in it.
ProgramSpans(program) ==
    {program.span} \cup UNION {StatementSpans(s) : s \in Range(program.statements)}

\* C11: every span of a successfully parsed tree has start <= end, the
\* Program's, every statement's, parameter's, field declaration's and
\* expression's; and combine of two of them has start <= end again.
C11_SpansOrdered ==
    (op.name = "parse" /\ result.kind = "Ok") =>
        LET spans == ProgramSpans(result.v) IN
        /\ \A s \in spans : s.start <= s.end
        /\ \A a, b \in spans : combine(a, b).start <= combine(a, b).end

\* `return a + b ;` has been parsed, and its value is a BinaryOp, whose span
\* and the statement's come from combine.
C11_Witness ==
    /\ op.name = "parse"
    /\ op.source.lexemes = ReturnStatement(<<Ident("a"), Tok("Plus"), Ident("b")>>)
    /\ result.kind = "Ok"
    /\ result.v.statements[1].value.value.node = "BinaryOp"
    /\ Cardinality(ProgramSpans(result.v)) >= 4

\* Every BinaryOp in e runs from the start of its left operand to the end
\* of its right operand.
RECURSIVE OperandsCovered(_)
OperandsCovered(e) ==
    e.node = "BinaryOp" =>
        /\ e.span = Span(e.left.span.start, e.right.span.end)
        /\ OperandsCovered(e.left)
        /\ OperandsCovered(e.right)

\* The span from the start of the first lexeme of a source to the end of
\* its k-th.
Extent(src, k) == Span(LexemeSpan(src, 1).start, LexemeSpan(src, k).end)

\* C12: a composite node runs from the start of its first consumed token to
\* the end of its last: a statement parsed alone covers its text (a return
\* with a value covers `return` through its expression), a
\* NamedFieldDeclaration runs from its field name to the end of its type
\* name, a Parameter likewise, and a BinaryOp from its left operand to the
\* end of its right operand.
C12_CompositeSpansCover ==
    (/\ op.name = "parse"
     /\ result.kind = "Ok"
     /\ Len(result.v.statements) = 1) =>
        LET statement == result.v.statements[1]
            n == Len(op.source.lexemes)
        IN CASE statement.node = "ReturnStatement" ->
                    IF statement.value.some
                    THEN /\ statement.span = Extent(op.source, n - 1)
                         /\ OperandsCovered(statement.value.value)
                    ELSE statement.span = Extent(op.source, 1)
             [] statement.node = "VariableDeclaration" ->
                    /\ statement.span = Extent(op.source, n)
                    /\ OperandsCovered(statement.initializer)
             [] statement.node = "NamedStruct" ->
                    /\ statement.span = Extent(op.source, n)
                    /\ \A f \in Range(statement.fields) :
                          f.span = Span(f.identifier.span.start,
                                        f.declared_type.span.end)
             [] statement.node = "FunctionDeclaration" ->
                    /\ statement.span = Extent(op.source, n)
                    /\ \A q \in Range(statement.parameters) :
                          q.span = Span(q.identifier.span.start,
                                        q.declared_type.span.end)
             [] OTHER -> statement.span = Extent(op.source, n)

\* C13: `struct P` alone, and `struct P (` followed by type names and
\* commas with no `)` before the input ends, make parse return
\* Err(UnexpectedEof); it does not panic.
C13_StructCutOffIsEof ==
    (/\ op.name = "parse"
     /\ \/ op.source.lexemes = UnitOpen
        \/ \E items \in TupleItems : op.source.lexemes = TupleOpen(items)) =>
        /\ result.kind = "Err"
        /\ result.err = [variant |-> "UnexpectedEof"]

\* `struct P ( int ,` has been parsed, and the outcome is UnexpectedEof.
C13_Witness ==
    /\ op.name = "parse"
    /\ op.source.lexemes = TupleOpen(<<Ident("int"), Tok("Comma")>>)
    /\ result = RErr(UnexpectedEof)

\* C14: a statement cut off by the end of the input, at whatever grammar
\* position, makes parse return Err(UnexpectedEof): `let x = 5` without its
\* `;`, `let` without its identifier, a function whose body is never closed.
C14_ExhaustedIsEof ==
    (/\ op.name = "parse"
     /\ \E t \in WellFormed : \E k \in 1..(Len(t) - 1) :
           op.source.lexemes = Truncated(t, k)) =>
        /\ result.kind = "Err"
        /\ result.err = [variant |-> "UnexpectedEof"]

\* The places of the statements of WellFormed where the parser calls
\* consume: the text, the position of the lexeme, and the token expected.
ConsumeSite(t, k, expected) == [text |-> t, k |-> k, expected |-> expected]

ConsumeSites ==
    LET let == LetStatement("x", <<Digits(<<5>>)>>)
        function == Function(<<Field("a")>>, <<let>>)
    IN { ConsumeSite(let, 3, "Assign"),
         ConsumeSite(let, 5, "Semicolon"),
         ConsumeSite(ReturnStatement(<<Ident("x")>>), 3, "Semicolon"),
         ConsumeSite(TupleStruct(<<Ident("int")>>), 6, "Semicolon"),
         ConsumeSite(function, 3, "LParen"),
         ConsumeSite(function, 5, "Colon"),
         ConsumeSite(function, 7, "RParen"),
         ConsumeSite(function, 8, "RightArrow"),
         ConsumeSite(function, 10, "LBrace"),
         ConsumeSite(function, 15, "Semicolon") }

\* C15: where consume(expected) meets another token, parse returns
\* UnexpectedToken with the expected token's name, the token found and that
\* token's span, and no Program.
C15_ConsumeMismatch ==
    op.name = "parse" =>
        \A site \in ConsumeSites, w \in Wrong :
            (/\ w.kind # site.expected
             /\ op.source.lexemes = Replaced(site.text, site.k, w)) =>
                /\ result.kind = "Err"
                /\ result.err =
                      [variant |-> "UnexpectedToken",
                       expected |-> site.expected,
                       found |-> Some(lex(w).token),
                       span |-> LexemeSpan(op.source, site.k)]

\* `let x = 5 ,` with a function around it has been parsed: the outcome is
\* the UnexpectedToken of the comma found where `;` is expected.
C15_Witness ==
    /\ op.name = "parse"
    /\ op.source.lexemes =
          Replaced(Function(<<Field("a")>>, <<LetStatement("x", <<Digits(<<5>>)>>)>>),
                   15, Tok("Comma"))
    /\ result.kind = "Err"
    /\ result.err.variant = "UnexpectedToken"
    /\ result.err.expected = "Semicolon"
    /\ result.err.found = Some(Tok("Comma"))
    /\ result.err.span = LexemeSpan(op.source, 15)

\* C16: `struct S { f1 : T1 ... fn : Tn }`, with nothing between the
\* fields, parses into a NamedStruct of the n fields in source order, each
\* with its identifier and declared type; the parser is then at the token
\* after `}`, so that a statement which follows is parsed as the next one.
C16_NamedStructNoSeparator ==
    op.name = "parse" =>
        \A fs \in FieldLists, tail \in {<<>>, Following} :
            op.source.lexemes = NamedStruct(fs) \o tail =>
                /\ result.kind = "Ok"
                /\ Len(result.v.statements) = IF tail = <<>> THEN 1 ELSE 2
                /\ LET declaration == result.v.statements[1] IN
                   /\ declaration.node = "NamedStruct"
                   /\ declaration.identifier.name = "S"
                   /\ Len(declaration.fields) = Len(fs)
                   /\ \A i \in 1..Len(fs) :
                         /\ declaration.fields[i].identifier.name = fs[i][1].name
                         /\ declaration.fields[i].declared_type.name = fs[i][3].name
                /\ tail # <<>> =>
                      result.v.statements[2].node = "VariableDeclaration"

\* The statements parsed are the statements written: a let for a let, a
\* return without a value for `return ;`, a return with one for
\* `return EXPR ;`.
StatementsAsWritten(statements, body) ==
    /\ Len(statements) = Len(body)
    /\ \A i \in 1..Len(body) :
          IF body[i][1] = Tok("Let")
          THEN statements[i].node = "VariableDeclaration"
          ELSE /\ statements[i].node = "ReturnStatement"
               /\ statements[i].value.some <=> Len(body[i]) > 2

\* C17: `return ;` and `return EXPR ;` are both accepted and both consume
\* their `;`: the statements of a sequence, and those of a function body up
\* to its `}`, are parsed one after the other, whatever follows a return.
C17_ReturnConsumesSemicolon ==
    op.name = "parse" =>
        \A body \in Bodies :
            /\ op.source.lexemes = Concat(body) =>
                  /\ result.kind = "Ok"
                  /\ StatementsAsWritten(result.v.statements, body)
            /\ op.source.lexemes = Function(<<>>, body) =>
                  /\ result.kind = "Ok"
                  /\ Len(result.v.statements) = 1
                  /\ result.v.statements[1].node = "FunctionDeclaration"
                  /\ StatementsAsWritten(result.v.statements[1].body, body)

\* An expression without its spans.
RECURSIVE Shape(_)
Shape(e) ==
    CASE e.node = "BinaryOp" ->
            [operator |-> e.operator, left |-> Shape(e.left), right |-> Shape(e.right)]
      [] e.node = "Identifier" -> [identifier |-> e.name]
      [] e.node = "IntegerLiteral" -> [integer |-> e.value]
      [] e.node = "FloatLiteral" -> [float |-> e.value]

\* The primary a lexeme writes, without its span.
PrimaryOf(lx) ==
    CASE lx.kind = "Identifier" -> [identifier |-> lx.name]
      [] lx.kind = "Digits" -> [integer |-> StripZeros(lx.digits)]
      [] lx.kind = "Float" ->
            [float |-> StripZeros(lx.whole) \o <<Point>>
                           \o StripTrailingZeros(lx.frac)]

\* The tree of the chain p1 op1 p2 op2 ... pn that groups to the right:
\* op1(p1, op2(p2, ...)).
RECURSIVE RightTree(_)
RightTree(chain) ==
    IF Len(chain) = 1 THEN PrimaryOf(chain[1])
    ELSE [operator |-> IF chain[2] = Tok("Plus") THEN "Add" ELSE "Multiply",
          left |-> PrimaryOf(chain[1]),
          right |-> RightTree(SubSeq(chain, 3, Len(chain)))]

\* C18: a chain of primaries joined by + and * parses into
\* BinaryOp(op1, p1, <tree of the rest>), so that the left operand of every
\* BinaryOp is a primary and neither operator binds tighter than the other.
C18_RightAssociative ==
    op.name = "parse" =>
        LET lexemes == op.source.lexemes
            n == Len(lexemes)
            initializer == SubSeq(lexemes, 4, n - 1)
            value == SubSeq(lexemes, 2, n - 1)
        IN /\ (initializer \in Expressions
                   /\ lexemes = LetStatement("x", initializer)) =>
                 /\ result.kind = "Ok"
                 /\ Shape(result.v.statements[1].initializer) = RightTree(initializer)
           /\ (value \in Expressions /\ lexemes = ReturnStatement(value)) =>
                 /\ result.kind = "Ok"
                 /\ Shape(result.v.statements[1].value.value) = RightTree(value)

\* `let x = a * b + 1.5 ;` has been parsed into Multiply(a, Add(b, 1.5)).
C18_Witness ==
    /\ op.name = "parse"
    /\ op.source.lexemes =
          LetStatement("x", <<Ident("a"), Tok("Star"), Ident("b"), Tok("Plus"),
                             Float(<<1>>, <<5>>)>>)
    /\ result.kind = "Ok"
    /\ LET e == result.v.statements[1].initializer IN
       /\ e.operator = "Multiply"
       /\ e.left.node = "Identifier" /\ e.left.name = "a"
       /\ e.right.node = "BinaryOp" /\ e.right.operator = "Add"
       /\ e.right.left.name = "b"
       /\ e.right.right.node = "FloatLiteral"

\* C19: the example, a tuple struct declaration and then a function whose
\* body holds a let and a return with a value, parses into a Program of
\* exactly two statements, TupleStruct then FunctionDeclaration; the first
\* runs from `struct` to its `;`, the second from `fn` to its closing `}`.
C19_ExampleParses ==
    (op.name = "parse" /\ op.source.lexemes = ExampleText) =>
        /\ result.kind = "Ok"
        /\ result.v.node = "Program"
        /\ Len(result.v.statements) = 2
        /\ LET declaration == result.v.statements[1]
               function == result.v.statements[2]
           IN /\ declaration.node = "TupleStruct"
              /\ declaration.identifier.name = "Point"
              /\ Len(declaration.fields) = 2
              /\ declaration.span =
                    Span(LexemeSpan(op.source, 1).start, LexemeSpan(op.source, 8).end)
              /\ function.node = "FunctionDeclaration"
              /\ function.identifier.name = "main"
              /\ function.parameters = <<>>
              /\ function.return_type.name = "int"
              /\ Len(function.body) = 2
              /\ function.body[1].node = "VariableDeclaration"
              /\ function.body[2].node = "ReturnStatement"
              /\ function.body[2].value.some
              /\ function.span =
                    Span(LexemeSpan(op.source, 9).start,
                         LexemeSpan(op.source, Len(ExampleText)).end)

\* The example has been parsed as the spec writes it, 67 bytes: the struct
\* declaration is 0..23 and the function 24..67.
C19_Witness ==
    /\ op.name = "parse"
    /\ op.source = ExampleSource
    /\ result.kind = "Ok"
    /\ result.v.span = Span(0, 67)
    /\ result.v.statements[1].span = Span(0, 23)
    /\ result.v.statements[2].span = Span(24, 67)

\* C20: an initializer that is a literal or an identifier evaluates without
\* a panic: after `let x = 1 ; let y = x ;` y looks up to what x does,
\* after `let x = 1.5 ;` x looks up to a Float, and `let y = a ;` with a
\* unbound fails with the error that the variable is not found and leaves
\* the environment as it was.
C20_EvaluateProjects ==
    op.name = "execute" =>
        /\ op.source.lexemes
                = LetInteger("x", <<1>>) \o LetStatement("y", <<Ident("x")>>) =>
              /\ result = ROk(<<>>)
              /\ get_variable(variables, "x") = Some(ValueInt(<<1>>))
              /\ get_variable(variables, "y") = Some(ValueInt(<<1>>))
        /\ op.source.lexemes = LetStatement("x", <<Float(<<1>>, <<5>>)>>) =>
              /\ result = ROk(<<>>)
              /\ get_variable(variables, "x").some
              /\ get_variable(variables, "x").value.tag = "Float"
        /\ op.source.lexemes = LetStatement("y", <<Ident("a")>>) =>
              /\ result.kind = "Err"
              /\ result.err = RuntimeEnvironmentError(VariableNotFound("a"))
              /\ variables = prev

\* C21: executing a program with a statement or an expression that is not
\* supported ends with an error result: `let x = 1 ; struct P ; let y = 2 ;`
\* fails at the struct declaration and does not go on to declare y, and
\* `let x = a + b ;` fails without a panic.
C21_UnsupportedIsFatal ==
    op.name = "execute" =>
        /\ op.source.lexemes
                = LetInteger("x", <<1>>)
                      \o <<Tok("Struct"), Ident("P"), Tok("Semicolon")>>
                      \o LetInteger("y", <<2>>) =>
              /\ result.kind = "Err"
              /\ get_variable(variables, "y") = get_variable(prev, "y")
        /\ op.source.lexemes
                = LetStatement("x", <<Ident("a"), Tok("Plus"), Ident("b")>>) =>
              result.kind = "Err"

\* The places of the integer literals of a text that do not fit an i64.
OverflowsAt(t) ==
    {i \in 1..Len(t) : t[i].kind = "Digits" /\ ~parse_i64(t[i].digits).ok}

\* C22: a digit sequence above i64::MAX is a lexical error that parse
\* returns as ParserError::LexerError(ParseIntError) when the parser
\* advances onto it, and not before: the lexer has then read up to that
\* literal and no further, the lookahead is still the token before it
\* (None when the literal is the first token), and there is no Program.  A
\* parse that ends before the lexer reaches the literal ends with another
\* error or a panic.
C22_OverflowSurfacesLazily ==
    (op.name = "parse" /\ OverflowsAt(op.source.lexemes) # {}) =>
        LET k == Min(OverflowsAt(op.source.lexemes))
            items == parsed.p.lexer.items
        IN IF parsed.p.lexer.pos >= k
           THEN /\ result = RErr(LexerError("ParseIntError"))
                /\ parsed.p.lexer.pos = k
                /\ parsed.p.current
                       = IF k = 1 THEN None
                         ELSE Some(<<items[k - 1].res.token, items[k - 1].span>>)
           ELSE /\ result.kind \in {"Err", "Panic"}
                /\ result # RErr(LexerError("ParseIntError"))

\* `let x = 9223372036854775808 ;` stops at the literal with `=` as the
\* lookahead.
C22_Witness ==
    /\ op.name = "parse"
    /\ op.source.lexemes
           = LetStatement("x", <<Digits(<<9, 2, 2, 3, 3, 7, 2, 0, 3, 6, 8, 5,
                                         4, 7, 7, 5, 8, 0, 8>>)>>)
    /\ result = RErr(LexerError("ParseIntError"))
    /\ parsed.p.lexer.pos = 4
    /\ parsed.p.current.some
    /\ parsed.p.current.value[1] = Tok("Assign")

\* C23: parse returns for every text, with a Program, an error or a panic:
\* no iteration of the statement loop, the parameter loop, the body loop,
\* the tuple-field loop or the named-field loop, and no parse_expression
\* that calls itself, goes round without a token consumed.  A Program is
\* returned with every token consumed.
C23_ParseTerminates ==
    op.name = "parse" =>
        /\ result.kind \in {"Ok", "Err", "Panic"}
        /\ result.kind = "Ok" => Remaining(parsed.p) = 0

\* A function whose body is never closed by `}`: after the statement of the
\* body the loop asks for a statement at the end of the input and the parse
\* ends with the error that there is none.
C23_Witness ==
    /\ op.name = "parse"
    /\ op.source.lexemes
           = <<Tok("Fn"), Ident("main"), Tok("LParen"), Ident("a"), Tok("Colon"),
               Ident("int"), Tok("RParen"), Tok("RightArrow"), Ident("int"),
               Tok("LBrace")>> \o LetStatement("x", <<Digits(<<5>>)>>)
    /\ result.kind = "Err"
    /\ result.err.variant = "UnexpectedToken"
    /\ result.err.expected = "statement"
    /\ result.err.found = None
    /\ Remaining(parsed.p) = 0

\* C24: execute parses the whole source before it executes anything: when
\* the parser returns an error, a lexical error or a parse error, after
\* however many valid declarations, execute returns that error as
\* RuntimeError::ParserError and the environment is what it was before the
\* call.  A source with an integer literal above i64::MAX and a source cut
\* off or with a token missing are such sources.
C24_ParseBeforeExecute ==
    op.name = "execute" =>
        /\ parsed.r.kind = "Err" =>
              /\ result = RErr(RuntimeParserError(parsed.r.err))
              /\ variables = prev
        /\ OverflowsAt(op.source.lexemes) # {} =>
              /\ result = RErr(RuntimeParserError(LexerError("ParseIntError")))
              /\ variables = prev
        /\ op.source.lexemes
                \in { LetInteger("x", <<1>>) \o <<Tok("Let"), Ident("y"), Digits(<<2>>)>>,
                      LetInteger("x", <<1>>) \o LetInteger("y", <<2>>) \o <<Tok("Let")>>,
                      LetInteger("y", <<2>>)
                          \o <<Tok("Struct"), Ident("P"), Tok("LParen")>> } =>
              /\ result.kind = "Err"
              /\ result.err.variant = "ParserError"
              /\ result.err.error.variant \in {"UnexpectedToken", "UnexpectedEof"}
              /\ variables = prev

\* With x bound to 2 by an earlier source, `let x = 1 ; let y 2` fails at
\* the 2 and x is still 2, y still undeclared.
C24_Witness ==
    /\ op.name = "execute"
    /\ op.source.lexemes
           = LetInteger("x", <<1>>) \o <<Tok("Let"), Ident("y"), Digits(<<2>>)>>
    /\ result.kind = "Err"
    /\ result.err = RuntimeParserError(parsed.r.err)
    /\ parsed.r.err.variant = "UnexpectedToken"
    /\ parsed.r.err.found = Some([kind |-> "IntegerLiteral", value |-> <<2>>])
    /\ prev # new
    /\ variables = prev
    /\ get_variable(variables, "x") = Some(ValueInt(<<2>>))
    /\ get_variable(variables, "y") = None

-----------------------------------------------------------------------------
(* Properties of Span *)

\* r covers both a and b.
Covers(r, a, b) ==
    /\ r.start <= a.start
    /\ r.start <= b.start
    /\ r.end >= a.end
    /\ r.end >= b.end

\* C10: combine(a, b) of two spans with start <= end is the smallest span
\* that covers both: it covers them, and every span that covers them
\* covers it.
C10_CombineCovers ==
    (/\ op.name = "combine"
     /\ spanA.start <= spanA.end
     /\ spanB.start <= spanB.end) =>
        /\ Covers(result, spanA, spanB)
        /\ \A r \in Spans :
              Covers(r, spanA, spanB) => r.start <= result.start /\ result.end <= r.end

=============================================================================
